---- MODULE Spec2Model ----
(***************************************************************************)
(* A model of glasgow.support.bits: the packed bit sequence types `bits`   *)
(* (immutable) and `bitarray` (mutable).  A sequence object is the pair    *)
(* (_len, _bytes); _bytes is a sequence of integers 0..255, byte 0 first.  *)
(* Python indices are 0-based, TLA+ sequences 1-based: byte j of the       *)
(* source is bytes[j + 1] here.                                            *)
(*                                                                         *)
(* Every operation is an operator that returns a record with the field     *)
(* exc ("none", or the name of the exception the call raises) and either   *)
(* val (the value returned) or self (the object as the call leaves it,     *)
(* also when it raises half way).                                          *)
(***************************************************************************)
EXTENDS Integers, Sequences, FiniteSets, TLC

VARIABLES x, pre, op, err, res, nops

vars == <<x, pre, op, err, res, nops>>

(***************************************************************************)
(* Bounds of the model.                                                    *)
(***************************************************************************)
MaxLen == 16
MaxOps == 2
MaxCount == 2

(***************************************************************************)
(* Python built-ins the module relies on.                                  *)
(***************************************************************************)
None == <<>>
Some(v) == <<v>>

\* the sequence s with its elements evaluated
List(s) == s \o <<>>

Min(a, b) == IF a < b THEN a ELSE b
Max(a, b) == IF a > b THEN a ELSE b

\* (n >> k) & 1 for n >= 0
BitAt(n, k) == (n \div (2 ^ k)) % 2

\* a byte from its eight bits, bit 0 least significant
ByteOf(f) == f[0] + 2 * f[1] + 4 * f[2] + 8 * f[3]
             + 16 * f[4] + 32 * f[5] + 64 * f[6] + 128 * f[7]

op_and(a, b) == ByteOf([k \in 0..7 |-> BitAt(a, k) * BitAt(b, k)])
op_or(a, b) == ByteOf([k \in 0..7 |-> Max(BitAt(a, k), BitAt(b, k))])
op_xor(a, b) == ByteOf([k \in 0..7 |-> (BitAt(a, k) + BitAt(b, k)) % 2])

ApplyOp(o, a, b) ==
    CASE o = "and" -> op_and(a, b)
      [] o = "or" -> op_or(a, b)
      [] o = "xor" -> op_xor(a, b)

\* int.bit_length() for v >= 0
RECURSIVE bit_length(_)
bit_length(v) == IF v = 0 THEN 0 ELSE 1 + bit_length(v \div 2)

\* slice.indices(length): <<start, stop, step>>, start/stop/step None or int
slice_indices(start, stop, step, length) ==
    IF length < 0 THEN [exc |-> "ValueError", val |-> <<0, 0, 1>>]
    ELSE IF step # None /\ step[1] = 0 THEN [exc |-> "ValueError", val |-> <<0, 0, 1>>]
    ELSE
      LET st == IF step = None THEN 1 ELSE step[1]
          lower == IF st < 0 THEN -1 ELSE 0
          upper == IF st < 0 THEN length - 1 ELSE length
          clip(v, dflt) ==
              IF v = None THEN dflt
              ELSE IF v[1] < 0
                   THEN Max(v[1] + length, lower)
                   ELSE Min(v[1], upper)
      IN [exc |-> "none",
          val |-> <<clip(start, IF st < 0 THEN upper ELSE lower),
                    clip(stop, IF st < 0 THEN lower ELSE upper),
                    st>>]

\* len(range(start, stop, step)), step # 0
range_len(start, stop, step) ==
    IF step > 0
    THEN (IF start < stop THEN (stop - start + step - 1) \div step ELSE 0)
    ELSE (IF start > stop THEN (start - stop - step - 1) \div (-step) ELSE 0)

\* list(range(start, stop, step))
range_seq(start, stop, step) ==
    List([k \in 1..range_len(start, stop, step) |-> start + (k - 1) * step])

\* b[start:stop:step] of a bytes object
bytes_slice(b, start, stop, step) ==
    LET ind == slice_indices(start, stop, step, Len(b)).val
        rng == range_seq(ind[1], ind[2], ind[3])
    IN List([k \in 1..Len(rng) |-> b[rng[k] + 1]])

\* b[start:stop] = new of a bytearray (step 1)
bytes_splice(b, start, stop, new) ==
    LET ind == slice_indices(start, stop, None, Len(b)).val
        lo == ind[1]
        hi == Max(ind[1], ind[2])
    IN SubSeq(b, 1, lo) \o new \o SubSeq(b, hi + 1, Len(b))

\* b * n of a bytes object
RECURSIVE bytes_mul(_, _)
bytes_mul(b, n) == IF n <= 0 THEN <<>> ELSE b \o bytes_mul(b, n - 1)

byte_len(l) == (l + 7) \div 8

byterev_lut == [byte \in 0..255 |-> ByteOf([bit \in 0..7 |-> BitAt(byte, 7 - bit)])]

translate(b) == List([k \in 1..Len(b) |-> byterev_lut[b[k]]])

(***************************************************************************)
(* Objects and results.                                                    *)
(***************************************************************************)
Obj(l, b) == [len |-> l, bytes |-> b]

Empty == Obj(0, <<>>)

Ok(v) == [exc |-> "none", val |-> v]
Raise(e) == [exc |-> e, val |-> Empty]
RaiseInt(e) == [exc |-> e, val |-> 0]

(***************************************************************************)
(* _bits_base: constructors.                                               *)
(***************************************************************************)
\* value.to_bytes(n, 'little'), 0 <= value < 256 ^ n
RECURSIVE to_bytes_little(_, _)
to_bytes_little(value, n) ==
    IF n = 0 THEN <<>> ELSE <<value % 256>> \o to_bytes_little(value \div 256, n - 1)

\* value & ~(-1 << length): value modulo 2 ^ length, as bits, least significant first
RECURSIVE masked_bits(_, _)
masked_bits(value, length) ==
    IF length = 0 THEN <<>> ELSE <<value % 2>> \o masked_bits(value \div 2, length - 1)

\* make_bytes() of from_iter over the already evaluated items
pack(items) ==
    LET nbits == Len(items)
    IN List([j \in 1..byte_len(nbits) |->
                ByteOf([k \in 0..7 |->
                    IF 8 * (j - 1) + k + 1 <= nbits THEN items[8 * (j - 1) + k + 1] ELSE 0])])

\* from_int with value.to_bytes applied to the value as given, not masked
from_int_unmasked(value, length) ==
    IF length = None
    THEN IF value < 0 THEN Raise("ValueError")
         ELSE Ok(Obj(bit_length(value),
                     to_bytes_little(value, byte_len(bit_length(value)))))
    ELSE IF length[1] < 0 THEN Raise("ValueError")
         ELSE Ok(Obj(length[1], to_bytes_little(value, byte_len(length[1]))))

from_int(value, length) ==
    IF length = None
    THEN IF value < 0 THEN Raise("ValueError")
         ELSE Ok(Obj(bit_length(value),
                     to_bytes_little(value, byte_len(bit_length(value)))))
    ELSE IF length[1] < 0 THEN Raise("ValueError")   \* -1 << length: negative shift count
         ELSE Ok(Obj(length[1], pack(masked_bits(value, length[1]))))

from_iter(iterator) ==
    LET items == List(iterator)
    IN IF \E k \in 1..Len(items) : items[k] \notin {0, 1}
       THEN Raise("ValueError")
       ELSE Ok(Obj(Len(items), pack(items)))

Reverse(s) == LET n == Len(s) IN List([k \in 1..n |-> s[n + 1 - k]])

\* re.sub(r"[\s_]", "", value)
strip_str(value) == SelectSeq(value, LAMBDA c : c \notin {" ", "_"})

\* from_str with the characters taken first to last
from_str_forward(value) ==
    LET v == strip_str(value)
    IN IF \E k \in 1..Len(v) : v[k] \notin {"0", "1"}
       THEN Raise("ValueError")
       ELSE from_iter([k \in 1..Len(v) |-> IF v[k] = "1" THEN 1 ELSE 0])

from_str(value) ==
    LET v == strip_str(value)
    IN IF \E k \in 1..Len(v) : v[k] \notin {"0", "1"}
       THEN Raise("ValueError")
       ELSE LET r == Reverse(v)
            IN from_iter([k \in 1..Len(r) |-> IF r[k] = "1" THEN 1 ELSE 0])

\* from_bytes that clears the padding bits of the last byte and accepts it
from_bytes_masking(value, length) ==
    LET l == IF length = None THEN 8 * Len(value) ELSE length[1]
    IN IF Len(value) # byte_len(l) THEN Raise("ValueError")
       ELSE IF l % 8 # 0 /\ Len(value) = 0 THEN Raise("IndexError")
       ELSE IF l % 8 # 0
            THEN Ok(Obj(l, [value EXCEPT ![Len(value)] = @ % (2 ^ (l % 8))]))
       ELSE Ok(Obj(l, value))

from_bytes(value, length) ==
    LET l == IF length = None THEN 8 * Len(value) ELSE length[1]
    IN IF Len(value) # byte_len(l) THEN Raise("ValueError")
       ELSE IF l % 8 # 0 /\ Len(value) = 0 THEN Raise("IndexError")   \* value[-1]
       ELSE IF l % 8 # 0 /\ value[Len(value)] \div (2 ^ (l % 8)) # 0
            THEN Raise("ValueError")
       ELSE Ok(Obj(l, value))

\* A Python value handed to the module: kind is its category, v the value.
\* (Each kind keeps its value in a field of its own.)
PyBits(o) == [kind |-> "bits", obj |-> o]
PyInt(n) == [kind |-> "int", int |-> n]
PyStr(s) == [kind |-> "str", str |-> s]
PyBytes(b) == [kind |-> "bytes", buf |-> b]
PyList(l) == [kind |-> "list", items |-> l]
PyFloat == [kind |-> "float"]

\* cls(value, length)
new(value, length) ==
    CASE value.kind = "bits" ->
           IF length # None THEN Raise("ValueError") ELSE Ok(Obj(value.obj.len, value.obj.bytes))
      [] value.kind = "int" -> from_int(value.int, length)
      [] value.kind = "str" ->
           IF length # None THEN Raise("ValueError") ELSE from_str(value.str)
      [] value.kind = "bytes" -> from_bytes(value.buf, length)
      [] value.kind = "list" ->
           IF length # None THEN Raise("ValueError") ELSE from_iter(value.items)
      [] OTHER -> Raise("TypeError")

(***************************************************************************)
(* _bits_base: indexing.                                                   *)
(***************************************************************************)
\* self[key], key an integer
getitem_int(self, key) ==
    LET k == IF key < 0 THEN key + self.len ELSE key
    IN IF ~(0 <= k /\ k < self.len) THEN RaiseInt("IndexError")
       ELSE IF k \div 8 >= Len(self.bytes) THEN RaiseInt("IndexError")
       ELSE [exc |-> "none", val |-> BitAt(self.bytes[k \div 8 + 1], k % 8)]

\* list(self): Sequence.__iter__ reads self[0], self[1], ... until IndexError
iter_bits(self) ==
    List([i \in 1..Max(0, Min(self.len, 8 * Len(self.bytes))) |->
             getitem_int(self, i - 1).val])

\* self[start:stop:step]
getitem_slice(self, start, stop, step) ==
    LET ind == slice_indices(start, stop, step, self.len)
        a == ind.val[1]
        b == ind.val[2]
        st == ind.val[3]
    IN IF ind.exc # "none" THEN Raise(ind.exc)
       ELSE IF range_len(a, b, st) = 0
            THEN new(PyInt(0), None)
       ELSE IF st = -1 /\ a % 8 = 7 /\ b % 8 = 7
            THEN Ok(Obj(a - b,
                        translate(bytes_slice(self.bytes, Some(a \div 8),
                                              Some(b \div 8), Some(-1)))))
       ELSE IF st = 1 /\ a % 8 = 0 /\ (b % 8 = 0 \/ b = self.len)
            THEN Ok(Obj(b - a,
                        bytes_slice(self.bytes, Some(a \div 8),
                                    Some((b + 7) \div 8), None)))
       ELSE LET rng == range_seq(a, b, 1)
            IN IF \E k \in 1..Len(rng) : getitem_int(self, rng[k]).exc # "none"
               THEN Raise("IndexError")
               ELSE from_iter([k \in 1..Len(rng) |-> getitem_int(self, rng[k]).val])

(***************************************************************************)
(* _bits_base: conversions.                                                *)
(***************************************************************************)
\* int.from_bytes(b, 'little')
RECURSIVE from_bytes_little(_)
from_bytes_little(b) ==
    IF Len(b) = 0 THEN 0 ELSE b[1] + 256 * from_bytes_little(Tail(b))

to_int(self) == from_bytes_little(self.bytes)

\* ''.join(str(x) for x in reversed(self)): Sequence.__reversed__ reads
\* self[len - 1], ..., self[0]
to_str(self) ==
    IF \E i \in 0..(self.len - 1) : getitem_int(self, i).exc # "none"
    THEN [exc |-> "IndexError", val |-> <<>>]
    ELSE [exc |-> "none",
          val |-> List([k \in 1..Max(0, self.len) |->
                           IF getitem_int(self, self.len - k).val = 1 THEN "1"
                           ELSE "0"])]

to_bytes(self) == self.bytes

(***************************************************************************)
(* _bits_base: combination operators.                                      *)
(***************************************************************************)
\* bits(other) for the operand of + and of find
coerce(other) ==
    IF other.kind = "bits" THEN Ok(other.obj) ELSE new(other, None)

\* add with the byte-buffer concatenation taken whatever len(self) is
add_unaligned(self, other) ==
    IF other.kind \notin {"bits", "str", "list", "bytes"} THEN Raise("TypeError")
    ELSE LET o == coerce(other)
         IN IF o.exc # "none" THEN Raise(o.exc)
            ELSE Ok(Obj(self.len + o.val.len, self.bytes \o o.val.bytes))

add(self, other) ==
    IF other.kind \notin {"bits", "str", "list", "bytes"} THEN Raise("TypeError")
    ELSE LET o == coerce(other)
         IN IF o.exc # "none" THEN Raise(o.exc)
            ELSE IF self.len % 8 = 0
                 THEN Ok(Obj(self.len + o.val.len, self.bytes \o o.val.bytes))
            ELSE from_iter(iter_bits(self) \o iter_bits(o.val))

radd(self, other) ==
    IF other.kind \notin {"bits", "str", "list", "bytes"} THEN Raise("TypeError")
    ELSE LET o == coerce(other)
         IN IF o.exc # "none" THEN Raise(o.exc)
            ELSE IF o.val.len % 8 = 0
                 THEN Ok(Obj(o.val.len + self.len, o.val.bytes \o self.bytes))
            ELSE from_iter(iter_bits(o.val) \o iter_bits(self))

RECURSIVE repeat_bits(_, _)
repeat_bits(s, n) == IF n <= 0 THEN <<>> ELSE s \o repeat_bits(s, n - 1)

mul(self, other) ==
    IF other.kind # "int" THEN Raise("TypeError")
    ELSE IF self.len % 8 = 0
         THEN Ok(Obj(self.len * other.int, bytes_mul(self.bytes, other.int)))
    ELSE from_iter(repeat_bits(iter_bits(self), other.int))

\* the coercion of the operand of &, |, ^ and of their in-place forms
bitop_operand(self, other) ==
    IF other.kind = "int" THEN new(other, Some(self.len))
    ELSE IF other.kind = "bits" THEN Ok(other.obj)
    ELSE new(other, None)

\* bitop without the comparison of the widths
bitop_unchecked(self, other, o) ==
    LET v == bitop_operand(self, other)
    IN IF v.exc # "none" THEN Raise(v.exc)
       ELSE Ok(Obj(self.len,
                   List([j \in 1..Min(Len(self.bytes), Len(v.val.bytes)) |->
                            ApplyOp(o, self.bytes[j], v.val.bytes[j])])))

bitop(self, other, o) ==
    LET v == bitop_operand(self, other)
    IN IF v.exc # "none" THEN Raise(v.exc)
       ELSE IF v.val.len < 0 \/ self.len < 0 \/ v.val.len # self.len
            THEN Raise("ValueError")
       ELSE Ok(Obj(self.len,
                   List([j \in 1..Min(Len(self.bytes), Len(v.val.bytes)) |->
                            ApplyOp(o, self.bytes[j], v.val.bytes[j])])))

\* reversed with the byte order reversed and the bits of each byte left as they are
reversed_untranslated(self) ==
    IF self.len % 8 = 0
    THEN Ok(Obj(self.len, Reverse(self.bytes)))
    ELSE IF \E i \in 0..(self.len - 1) : getitem_int(self, i).exc # "none"
         THEN Raise("IndexError")                 \* reversed(self) reads self[i]
    ELSE from_iter(Reverse(iter_bits(self)))

reversed(self) ==
    IF self.len % 8 = 0
    THEN Ok(Obj(self.len, Reverse(translate(self.bytes))))
    ELSE IF \E i \in 0..(self.len - 1) : getitem_int(self, i).exc # "none"
         THEN Raise("IndexError")                 \* reversed(self) reads self[i]
    ELSE from_iter(Reverse(iter_bits(self)))

byte_reversed(self) ==
    IF self.len % 8 = 0
    THEN Ok(Obj(self.len, translate(self.bytes)))
    ELSE Raise("ValueError")

\* bits(sub) for the needle of find
find_operand(sub) ==
    IF sub.kind \in {"bits", "str", "list", "bytes"} THEN new(sub, None)
    ELSE IF sub.kind = "int" THEN from_iter(<<sub.int>>)
    ELSE Raise("TypeError")                       \* operator.index(bit)

\* all(self[i + j] == sub[j] for j in range(sub._len)): the first j at which
\* the read raises or the bits differ decides; reads are the indices passed
\* to self[...]
find_probe(self, sub, i) ==
    LET bad == {j \in 0..(sub.len - 1) :
                   \/ getitem_int(self, i + j).exc # "none"
                   \/ getitem_int(self, i + j).val # getitem_int(sub, j).val}
        first == CHOOSE j \in bad : \A k \in bad : j <= k
    IN IF bad = {}
       THEN [is |-> "match", reads |-> {i + j : j \in 0..(sub.len - 1)}]
       ELSE [is |-> IF getitem_int(self, i + first).exc # "none" THEN "raise"
                    ELSE "differ",
             reads |-> {i + j : j \in 0..first}]

\* for i in range(start, end): ... return i; return -1
find_scan(self, sub, start, end) ==
    LET hits == {i \in start..(end - 1) : find_probe(self, sub, i).is # "differ"}
        hit == CHOOSE i \in hits : \A k \in hits : i <= k
        last == IF hits = {} THEN end - 1 ELSE hit
    IN [exc |-> IF hits # {} /\ find_probe(self, sub, hit).is = "raise"
                THEN "IndexError" ELSE "none",
        val |-> IF hits # {} /\ find_probe(self, sub, hit).is = "match"
                THEN hit ELSE -1,
        reads |-> UNION {find_probe(self, sub, i).reads : i \in start..last}]

\* find with the scan running up to end, whatever the length of the needle
find_unclamped(self, sub, start, end) ==
    LET s == find_operand(sub)
    IN IF s.exc # "none" THEN [exc |-> s.exc, val |-> -1, reads |-> {}]
       ELSE find_scan(self, s.val, start,
                      IF end = None THEN self.len ELSE end[1])

\* self.find(sub, start, end); reads are the indices of self it read
find(self, sub, start, end) ==
    LET s == find_operand(sub)
    IN IF s.exc # "none" THEN [exc |-> s.exc, val |-> -1, reads |-> {}]
       ELSE find_scan(self, s.val, start,
                      Min(IF end = None THEN self.len ELSE end[1],
                          self.len - (s.val.len - 1)))

\* self.index(sub, start, end) (index names a parameter of insert)
seq_index(self, sub, start, end) ==
    LET r == find(self, sub, start, end)
    IN IF r.exc = "none" /\ r.val = -1
       THEN [exc |-> "ValueError", val |-> -1, reads |-> r.reads]
       ELSE r

(***************************************************************************)
(* bitarray: the mutating operations.  Each returns exc and self, the      *)
(* object as the call leaves it.                                           *)
(***************************************************************************)
MOk(o) == [exc |-> "none", self |-> o]
MRaise(e, o) == [exc |-> e, self |-> o]

\* F applied to the value of e: e is evaluated once, as a statement is
Let(e, F(_)) == CHOOSE out \in {F(z) : z \in {e}} : TRUE

\* the statement r, and after it, unless it raised, the statements next
AndThen(r, next(_)) ==
    Let(r, LAMBDA done : IF done.exc # "none" THEN done ELSE next(done.self))

fix_padding(self) ==
    IF self.len % 8 # 0
    THEN IF Len(self.bytes) = 0
         THEN MRaise("IndexError", self)          \* self._bytes[-1]
         ELSE MOk(Obj(self.len,
                      [self.bytes EXCEPT ![Len(self.bytes)] = @ % (2 ^ (self.len % 8))]))
    ELSE MOk(self)

resize(self, length) ==
    IF length < self.len
    THEN AndThen(fix_padding(Obj(self.len,
                                 bytes_splice(self.bytes, Some(byte_len(length)),
                                              None, <<>>))),
                 LAMBDA s : MOk(Obj(length, s.bytes)))
    ELSE IF length > self.len
         THEN MRaise("TypeError", self)           \* blen - self._bytes
    ELSE MOk(Obj(length, self.bytes))

\* self[key] = value, key an integer
setitem_int(self, key, value) ==
    IF value \notin {0, 1} THEN MRaise("ValueError", self)
    ELSE LET k == IF key < 0 THEN key + self.len ELSE key
         IN IF ~(0 <= k /\ k < self.len) THEN MRaise("IndexError", self)
            ELSE IF k \div 8 >= Len(self.bytes) THEN MRaise("IndexError", self)
            ELSE LET byte == self.bytes[k \div 8 + 1]
                     set == byte + (1 - BitAt(byte, k % 8)) * (2 ^ (k % 8))
                     clr == byte - BitAt(byte, k % 8) * (2 ^ (k % 8))
                 IN MOk(Obj(self.len,
                            [self.bytes EXCEPT ![k \div 8 + 1] =
                                IF value = 1 THEN set ELSE clr]))

\* for di, bit in zip(rng, value): self[di] = bit, from the k-th pair on
RECURSIVE assign_bits(_, _, _, _)
assign_bits(self, rng, value, k) ==
    IF k > Min(Len(rng), Len(value)) THEN MOk(self)
    ELSE AndThen(setitem_int(self, rng[k], value[k]),
                 LAMBDA s : assign_bits(s, rng, value, k + 1))

\* the value of a slice assignment as a sequence
slice_value(value, count) ==
    CASE value.kind = "int" -> new(value, Some(count))
      [] value.kind = "str" -> new(value, None)
      [] value.kind = "bits" -> Ok(value.obj)
      [] OTHER -> Raise("ValueError")

RECURSIVE setitem_slice(_, _, _, _, _)

insert(self, index, value) ==
    IF value \notin {0, 1} THEN MRaise("ValueError", self)
    ELSE LET i == IF index < 0 THEN index + self.len ELSE index
         IN IF i = self.len
            THEN setitem_int(Obj(self.len + 1,
                                 IF self.len % 8 = 0 THEN Append(self.bytes, 0)
                                                     ELSE self.bytes),
                             i, value)
            ELSE setitem_slice(self, Some(i), Some(i), None,
                               PyBits(from_int(value, Some(1)).val))

\* MutableSequence.extend: for v in values: self.append(v), from the k-th on
RECURSIVE append_all(_, _, _)
append_all(self, values, k) ==
    IF k > Len(values) THEN MOk(self)
    ELSE IF self.len < 0 THEN MRaise("ValueError", self)      \* len(self)
    ELSE AndThen(insert(self, self.len, values[k]),
                 LAMBDA s : append_all(s, values, k + 1))

extend(self, values) ==
    IF values.kind \in {"str", "bits"}
    THEN setitem_slice(self, Some(self.len), None, None, values)
    ELSE IF values.kind = "list" THEN append_all(self, values.items, 1)
    ELSE MRaise("TypeError", self)                \* not iterable

\* self += values (MutableSequence.__iadd__)
iadd(self, values) == extend(self, values)

\* the paths of __setitem__ for the slice range(a, b, st) and the sequence v
setitem_paths(self, a, b, st, v) ==
    IF st # 1
    THEN IF v.len < 0 \/ range_len(a, b, st) # v.len
         THEN MRaise("ValueError", self)
         ELSE Let(range_seq(a, b, st), LAMBDA rng :
              Let(iter_bits(v), LAMBDA items : assign_bits(self, rng, items, 1)))
    ELSE IF a % 8 = 0 /\ b % 8 = 0 /\ v.len % 8 = 0
         THEN Let(bytes_splice(self.bytes, Some(a \div 8), Some(b \div 8), v.bytes),
                  LAMBDA nb : MOk(Obj(Len(nb) * 8, nb)))
    ELSE IF a % 8 = 0 /\ b = self.len
         THEN MOk(Obj(a + v.len,
                      bytes_splice(self.bytes, Some(a \div 8), None, v.bytes)))
    ELSE IF b - a = v.len
         THEN Let(range_seq(a, b, st), LAMBDA rng :
              Let(iter_bits(v), LAMBDA items : assign_bits(self, rng, items, 1)))
    ELSE IF b = self.len
         THEN AndThen(resize(self, self.len + v.len), LAMBDA s :
              Let(range_seq(a, b, st), LAMBDA rng :
              Let(iter_bits(v), LAMBDA items : assign_bits(s, rng, items, 1))))
    ELSE Let(getitem_slice(self, Some(b), None, None), LAMBDA tail :
         IF tail.exc # "none" THEN MRaise(tail.exc, self)
         ELSE AndThen(resize(self, a), LAMBDA s1 :
              AndThen(iadd(s1, PyBits(v)), LAMBDA s2 :
              iadd(s2, PyBits(tail.val)))))

setitem_slice(self, start, stop, step, value) ==
    Let(slice_indices(start, stop, step, self.len), LAMBDA ind :
    IF ind.exc # "none" THEN MRaise(ind.exc, self)
    ELSE Let(slice_value(value, range_len(ind.val[1], ind.val[2], ind.val[3])),
             LAMBDA v :
             IF v.exc # "none" THEN MRaise(v.exc, self)
             ELSE setitem_paths(self, ind.val[1], ind.val[2], ind.val[3], v.val)))

\* del self[key]: the interpreter calls __delitem__(self, key), which lacks
\* the required argument value
del_stmt(self, key) == MRaise("TypeError", self)

\* the paths of __delitem__ for the slice range(a, b, st)
delitem_paths(self, a, b, st) ==
    IF range_len(a, b, st) = 0 THEN MOk(self)
    ELSE IF st = 1 /\ a % 8 = 0 /\ (b % 8 = 0 \/ b = self.len)
         THEN MRaise("UnboundLocalError",         \* return res
                     Obj(IF b = self.len THEN a ELSE self.len - (b - a),
                         bytes_splice(self.bytes, Some(a \div 8),
                                      Some((b + 7) \div 8), <<>>)))
    ELSE IF st = 1 /\ b = self.len THEN resize(self, a)
    ELSE IF st = 1
         THEN Let(getitem_slice(self, Some(b), None, None), LAMBDA tail :
              IF tail.exc # "none" THEN MRaise(tail.exc, self)
              ELSE AndThen(resize(self, a), LAMBDA s : iadd(s, PyBits(tail.val))))
    ELSE Let(iter_bits(self), LAMBDA all :
         Let(range_seq(a, b, st), LAMBDA rng :
         Let(SelectSeq([i \in 1..Len(all) |-> <<i - 1, all[i]>>],
                       LAMBDA p : \A k \in 1..Len(rng) : rng[k] # p[1]),
             LAMBDA kept : MOk(from_iter([i \in 1..Len(kept) |-> kept[i][2]]).val))))

\* self.__delitem__(key, value), key the slice start:stop:step
delitem_slice(self, start, stop, step) ==
    Let(slice_indices(start, stop, step, self.len), LAMBDA ind :
    IF ind.exc # "none" THEN MRaise(ind.exc, self)
    ELSE delitem_paths(self, ind.val[1], ind.val[2], ind.val[3]))

\* self.__delitem__(key, value), key an integer
delitem_int(self, key) ==
    LET k == IF key < 0 THEN key + self.len ELSE key
    IN IF ~(0 <= k /\ k < self.len) THEN MRaise("IndexError", self)
       ELSE del_stmt(self, k)                     \* del self[key:key+1]

clear(self) == MOk(Obj(0, <<>>))

\* for _ in range(n): self += val
RECURSIVE iadd_times(_, _, _)
iadd_times(self, val, n) ==
    IF n <= 0 THEN MOk(self)
    ELSE AndThen(iadd(self, PyBits(val)), LAMBDA s : iadd_times(s, val, n - 1))

imul(self, other) ==
    IF self.len % 8 = 0 \/ other = 0
    THEN MOk(Obj(self.len * other, bytes_mul(self.bytes, other)))
    ELSE IF other < 0 THEN MRaise("ValueError", self)
    ELSE IF other # 1
         THEN Let(getitem_slice(self, None, None, None), LAMBDA val :
              IF val.exc # "none" THEN MRaise(val.exc, self)
              ELSE iadd_times(self, val.val, other - 1))
    ELSE MOk(self)

\* for i, b in enumerate(other._bytes): self._bytes[i] = op(self._bytes[i], b)
ibitop_bytes(self, v, o) ==
    Let(List([j \in 1..Len(self.bytes) |->
                 IF j <= Len(v.bytes) THEN ApplyOp(o, self.bytes[j], v.bytes[j])
                 ELSE self.bytes[j]]),
        LAMBDA nb : IF Len(v.bytes) > Len(self.bytes)
                    THEN MRaise("IndexError", Obj(self.len, nb))
                    ELSE MOk(Obj(self.len, nb)))

ibitop(self, other, o) ==
    Let(bitop_operand(self, other), LAMBDA v :
    IF v.exc # "none" THEN MRaise(v.exc, self)
    ELSE IF v.val.len < 0 \/ self.len < 0 \/ v.val.len # self.len
         THEN MRaise("ValueError", self)
    ELSE ibitop_bytes(self, v.val, o))

setall(self, value) ==
    IF value \notin {0, 1} THEN MRaise("ValueError", self)
    ELSE IF value = 1
         THEN Let(Obj(self.len, List([j \in 1..Len(self.bytes) |-> 255])),
                  LAMBDA full : Let(fix_padding(full), LAMBDA fixed :
                      IF fixed.exc # "none" THEN MRaise(fixed.exc, full) ELSE fixed))
    ELSE MOk(Obj(self.len, List([j \in 1..Len(self.bytes) |-> 0])))

(***************************************************************************)
(* The values the operations are applied to.                               *)
(***************************************************************************)
MaxStr == 3
MaxShort == 3

\* all sequences over S of length at most n
SeqsUpTo(S, n) == UNION {[1..k -> S] : k \in 0..n}

\* bit (i - 1) of the o-th pattern: the 13 bits 1000111001101, repeated
PatBit(o, i) == BitAt(5745, (i + o) % 13)

\* the bit lists the sequences are built from: every short list, and for
\* every length up to MaxLen all ones, all zeros and two patterns
BitLists ==
    SeqsUpTo({0, 1}, MaxShort)
    \cup {[i \in 1..n |-> 1] : n \in 0..MaxLen}
    \cup {[i \in 1..n |-> 0] : n \in 0..MaxLen}
    \cup {[i \in 1..n |-> PatBit(0, i)] : n \in 0..MaxLen}
    \cup {[i \in 1..n |-> PatBit(4, i)] : n \in 0..MaxLen}

\* the sequences a caller holds: from_iter of the bit lists
Operands == {from_iter(l).val : l \in BitLists}

StrArgs ==
    SeqsUpTo({"0", "1", "_", " ", "2"}, MaxStr)
    \cup {<<"0", " ", "1", " ", " ", "0", "1", "1", "_", "1", "0", "0">>,
          <<"1", "0", "0", "0", "1", "0", "0", "1", "0", "1", "1">>}

ListArgs == SeqsUpTo({0, 1, 2}, MaxShort) \cup BitLists

ByteArgs == SeqsUpTo({0, 1, 165, 255}, 2)

IntArgs == {-2, -1, 0, 1, 2, 5, 6, 10, 165, 255, 256, 421, 65535}

LenArgs == {None} \cup {Some(n) : n \in -1..(MaxLen + 1)}

SliceArgs == {None} \cup {Some(i) : i \in -3..(MaxLen + 1)}

StepArgs == {None, Some(1), Some(2), Some(3), Some(-1), Some(-2), Some(0)}

CountArgs == -1..MaxCount

\* the right-hand operands of +, &, |, ^
Others ==
    {PyBits(o) : o \in Operands}
    \cup {PyStr(s) : s \in StrArgs}
    \cup {PyList(l) : l \in ListArgs}
    \cup {PyInt(v) : v \in IntArgs}
    \cup {PyFloat}

(***************************************************************************)
(* SpecOps: a caller holds a sequence x and applies the constructors and   *)
(* the non-mutating operations; op is the call, err what it raised and res *)
(* the sequence it returned.                                               *)
(***************************************************************************)
\* the caller is between two calls
Idle == [name |-> "idle"]

\* the caller has looked at the outcome of its call and goes on
Done ==
    /\ op # Idle
    /\ op' = Idle
    /\ err' = "none"
    /\ res' = Empty
    /\ pre' = x
    /\ UNCHANGED <<x, nops>>

InitOps ==
    /\ x \in Operands
    /\ pre = x
    /\ op = Idle
    /\ err = "none"
    /\ res = Empty
    /\ nops = 0

\* the call c returns r
Returns(c, r) ==
    /\ op' = c
    /\ err' = r.exc
    /\ res' = r.val
    /\ UNCHANGED <<x, pre, nops>>

DoFromInt ==
    /\ op = Idle
    /\ \E value \in IntArgs, length \in LenArgs :
        Returns([name |-> "from_int", value |-> value, length |-> length],
                from_int(value, length))

DoFromStr ==
    /\ op = Idle
    /\ \E value \in StrArgs :
        Returns([name |-> "from_str", value |-> value], from_str(value))

DoFromIter ==
    /\ op = Idle
    /\ \E value \in ListArgs :
        Returns([name |-> "from_iter", value |-> value], from_iter(value))

DoFromBytes ==
    /\ op = Idle
    /\ \E value \in ByteArgs, length \in LenArgs :
        Returns([name |-> "from_bytes", value |-> value, length |-> length],
                from_bytes(value, length))

DoNew ==
    /\ op = Idle
    /\ \E value \in Others \cup {PyBytes(b) : b \in ByteArgs},
       length \in {None, Some(0), Some(4), Some(8), Some(9)} :
        Returns([name |-> "new", value |-> value, length |-> length],
                new(value, length))

DoGetSlice ==
    /\ op = Idle
    /\ \E start \in SliceArgs, stop \in SliceArgs, step \in StepArgs :
        Returns([name |-> "getitem", start |-> start, stop |-> stop, step |-> step],
                getitem_slice(x, start, stop, step))

DoAdd ==
    /\ op = Idle
    /\ \E other \in Others :
        Returns([name |-> "add", other |-> other], add(x, other))

DoRadd ==
    /\ op = Idle
    /\ \E other \in Others :
        Returns([name |-> "radd", other |-> other], radd(x, other))

DoMul ==
    /\ op = Idle
    /\ \E other \in {PyInt(n) : n \in CountArgs} \cup {PyFloat} :
        Returns([name |-> "mul", other |-> other], mul(x, other))

DoBitop ==
    /\ op = Idle
    /\ \E o \in {"and", "or", "xor"}, other \in Others :
        Returns([name |-> o, other |-> other], bitop(x, other, o))

DoReversed ==
    /\ op = Idle
    /\ Returns([name |-> "reversed"], reversed(x))

DoByteReversed ==
    /\ op = Idle
    /\ Returns([name |-> "byte_reversed"], byte_reversed(x))

DoToInt ==
    /\ op = Idle
    /\ Returns([name |-> "to_int"], [exc |-> "none", val |-> to_int(x)])

DoToStr ==
    /\ op = Idle
    /\ Returns([name |-> "to_str"], to_str(x))

DoToBytes ==
    /\ op = Idle
    /\ Returns([name |-> "to_bytes"], [exc |-> "none", val |-> to_bytes(x)])

\* the needles of find and index
Needles ==
    {PyBits(from_iter(l).val) : l \in SeqsUpTo({0, 1}, MaxShort)}
    \cup {PyBits(from_iter([i \in 1..n |-> PatBit(4, i)]).val) : n \in {5, 9}}
    \cup {PyStr(<<"1", " ", "1">>), PyStr(<<"1", "2">>), PyList(<<0, 1>>),
          PyList(<<2>>), PyInt(0), PyInt(1), PyInt(2), PyFloat}

StartArgs == {-1, 0, 1, 3, 8, MaxLen + 1}

EndArgs == {None} \cup {Some(i) : i \in {-1, 0, 2, 9, MaxLen + 4}}

DoFind ==
    /\ op = Idle
    /\ \E sub \in Needles, start \in StartArgs, end \in EndArgs :
        Returns([name |-> "find", sub |-> sub, start |-> start, end |-> end],
                find(x, sub, start, end))

DoIndex ==
    /\ op = Idle
    /\ \E sub \in Needles, start \in StartArgs, end \in EndArgs :
        Returns([name |-> "index", sub |-> sub, start |-> start, end |-> end],
                seq_index(x, sub, start, end))

NextOps ==
    \/ DoFromInt
    \/ DoFromStr
    \/ DoFromIter
    \/ DoFromBytes
    \/ DoNew
    \/ DoGetSlice
    \/ DoAdd
    \/ DoRadd
    \/ DoMul
    \/ DoBitop
    \/ DoReversed
    \/ DoByteReversed
    \/ DoToInt
    \/ DoToStr
    \/ DoToBytes
    \/ DoFind
    \/ DoIndex
    \/ Done

SpecOps == InitOps /\ [][NextOps]_vars

(***************************************************************************)
(* What the claims speak of: the logical bits of a sequence, read straight *)
(* from the data model (bit i is bit i % 8 of byte i / 8).                 *)
(***************************************************************************)
\* length is non-negative, storage is ceil(length / 8) bytes, padding is zero
WellFormed(o) ==
    /\ o.len >= 0
    /\ Len(o.bytes) = (o.len + 7) \div 8
    /\ o.len % 8 # 0 => o.bytes[Len(o.bytes)] < 2 ^ (o.len % 8)

\* the sequence o has exactly the logical bits of the list l
HasBits(o, l) ==
    /\ o.len = Len(l)
    /\ Len(o.bytes) >= (o.len + 7) \div 8
    /\ \A i \in 1..Len(l) : (o.bytes[(i - 1) \div 8 + 1] \div (2 ^ ((i - 1) % 8))) % 2 = l[i]

\* the logical bits of a well-formed sequence
BitsOf(o) ==
    [i \in 1..o.len |-> (o.bytes[(i - 1) \div 8 + 1] \div (2 ^ ((i - 1) % 8))) % 2]

\* a bit-like source, and the bits it stands for (text is most significant first)
BitLike(v) ==
    CASE v.kind = "bits" -> WellFormed(v.obj)
      [] v.kind = "list" -> \A k \in 1..Len(v.items) : v.items[k] \in {0, 1}
      [] v.kind = "str" -> \A k \in 1..Len(v.str) : v.str[k] \in {"0", "1", "_", " "}
      [] OTHER -> FALSE

BitsOfValue(v) ==
    CASE v.kind = "bits" -> BitsOf(v.obj)
      [] v.kind = "list" -> v.items
      [] v.kind = "str" ->
           LET digits == SelectSeq(v.str, LAMBDA c : c \in {"0", "1"})
           IN [k \in 1..Len(digits) |->
                  IF digits[Len(digits) + 1 - k] = "1" THEN 1 ELSE 0]

TruthTable(o, a, b) ==
    CASE o = "and" -> IF a = 1 /\ b = 1 THEN 1 ELSE 0
      [] o = "or" -> IF a = 1 \/ b = 1 THEN 1 ELSE 0
      [] o = "xor" -> IF a # b THEN 1 ELSE 0

\* the slice of the call, clipped against len(x) as range(start, stop, step)
\* (only for a call of getitem with a step other than 0)
SliceRange ==
    LET ind == slice_indices(op.start, op.stop, op.step, x.len).val
    IN [start |-> ind[1], stop |-> ind[2], step |-> ind[3],
        count |-> range_len(ind[1], ind[2], ind[3])]

\* the bits x[start + k * step], k = 0 .. count - 1
SliceBits ==
    LET r == SliceRange
        b == BitsOf(x)
    IN [k \in 1..r.count |-> b[r.start + (k - 1) * r.step + 1]]

\* C2: every sequence returned by a constructor or by a non-mutating
\* operation has a non-negative length, storage of exactly ceil(length / 8)
\* bytes and zero padding bits in the last byte.
C2_ResultsWellFormed ==
    (op.name \in {"from_int", "from_str", "from_iter", "from_bytes", "new",
                  "getitem", "add", "radd", "mul", "and", "or", "xor",
                  "reversed", "byte_reversed"}
     /\ err = "none")
    => WellFormed(res)

\* the call is a slice that takes one of the two byte-aligned fast paths
TakesFastPath ==
    /\ op.name = "getitem"
    /\ op.step # Some(0)
    /\ SliceRange.count > 0
    /\ \/ /\ SliceRange.step = -1
          /\ SliceRange.start % 8 = 7
          /\ SliceRange.stop % 8 = 7
       \/ /\ SliceRange.step = 1
          /\ SliceRange.start % 8 = 0
          /\ (SliceRange.stop % 8 = 0 \/ SliceRange.stop = x.len)

\* C4: a slice that takes a byte-aligned fast path returns what the
\* bit-by-bit reconstruction over range(start, stop, step) gives, in length
\* and in bits.
C4_FastPathEqualsGeneric ==
    TakesFastPath => (err = "none" /\ HasBits(res, SliceBits))

\* C5: for every slice, x[start:stop:step] has length
\* len(range(start, stop, step)) and its k-th bit is x[start + k * step]; an
\* empty range gives the empty sequence.
C5_SliceIsRange ==
    (op.name = "getitem" /\ op.step # Some(0))
    => (err = "none" /\ HasBits(res, SliceBits) /\ (SliceRange.count = 0 => res = Empty))

\* C9: a + b has length len(a) + len(b), the bits of a followed by the bits
\* of b, in the storage the bit-by-bit reconstruction gives; the reflected
\* form b + a puts the bits of b first.
C9_Concatenation ==
    /\ (op.name = "add" /\ BitLike(op.other))
       => (err = "none" /\ WellFormed(res)
           /\ HasBits(res, BitsOf(x) \o BitsOfValue(op.other)))
    /\ (op.name = "radd" /\ BitLike(op.other))
       => (err = "none" /\ WellFormed(res)
           /\ HasBits(res, BitsOfValue(op.other) \o BitsOf(x)))

\* C9's case: a byte-aligned, non-empty left operand takes the byte-buffer
\* concatenation with a right operand that is not byte-aligned
C9_Witness ==
    /\ op.name = "add"
    /\ err = "none"
    /\ x.len = 8
    /\ BitLike(op.other)
    /\ Len(BitsOfValue(op.other)) = 3
    /\ res.len = 11

\* the operand of a bitwise operator: a bit-like source, or an integer that
\* is masked to len(x)
BitopOperand ==
    IF op.other.kind = "int"
    THEN [i \in 1..x.len |-> (op.other.int \div (2 ^ (i - 1))) % 2]
    ELSE BitsOfValue(op.other)

\* C10: &, | and ^ of operands of equal length give that length and, bit by
\* bit, the truth table of the operator (an integer operand is masked to the
\* left operand's length first); operands of differing length raise the
\* width-mismatch error and give no result.
C10_Bitwise ==
    (op.name \in {"and", "or", "xor"} /\ (op.other.kind = "int" \/ BitLike(op.other)))
    => IF Len(BitopOperand) = x.len
       THEN /\ err = "none"
            /\ HasBits(res, [i \in 1..x.len |->
                                TruthTable(op.name, BitsOf(x)[i], BitopOperand[i])])
       ELSE err = "ValueError" /\ res = Empty

\* C10's case: an exclusive or of two 11-bit operands that differ
C10_Witness ==
    /\ op.name = "xor"
    /\ err = "none"
    /\ x.len = 11
    /\ op.other.kind = "bits"
    /\ op.other.obj # x
    /\ res # x
    /\ res.bytes # <<0, 0>>

\* C11: x.reversed() has the length of x and bit i equal to x[len - 1 - i], on
\* the byte-aligned table path and on the bit-by-bit path, so reversing the
\* result gives x again; byte_reversed raises when the length is not a
\* multiple of 8 and is its own inverse otherwise.
C11_Reversal ==
    /\ op.name = "reversed"
       => /\ err = "none"
          /\ WellFormed(res)
          /\ HasBits(res, Reverse(BitsOf(x)))
          /\ reversed(res) = Ok(x)
    /\ op.name = "byte_reversed"
       => IF x.len % 8 = 0
          THEN err = "none" /\ WellFormed(res) /\ res.len = x.len
               /\ byte_reversed(res) = Ok(x)
          ELSE err = "ValueError" /\ res = Empty

\* C11's case: a 16-bit sequence that is not its own mirror image is
\* reversed through the table
C11_Witness ==
    /\ op.name = "reversed"
    /\ err = "none"
    /\ x.len = 16
    /\ res # x
    /\ res.bytes[1] # x.bytes[2]

\* the bits of the needle of the call: a bit-like source, or the one bit of
\* an integer 0 or 1
NeedleIsBits == (op.sub.kind = "int" /\ op.sub.int \in {0, 1}) \/ BitLike(op.sub)

NeedleBits == IF op.sub.kind = "int" THEN <<op.sub.int>> ELSE BitsOfValue(op.sub)

\* the offsets of the window [start, end) at which the needle occurs in x
Occurrences ==
    LET hay == BitsOf(x)
        sub == NeedleBits
        hi == IF op.end = None THEN x.len ELSE op.end[1]
    IN {i \in op.start..(hi - 1) :
           /\ i + Len(sub) <= x.len
           /\ \A j \in 1..Len(sub) : hay[i + j] = sub[j]}

FirstOccurrence ==
    IF Occurrences = {} THEN -1
    ELSE CHOOSE i \in Occurrences : \A k \in Occurrences : i <= k

\* C12: with 0 <= start, find returns the smallest offset of the window
\* [start, end) at which the needle occurs wholly inside x, and -1 when there
\* is none, reading no bit outside [0, len(x)); index returns the same offset
\* and raises exactly when find returns -1.
C12_Find ==
    /\ (op.name = "find" /\ op.start >= 0 /\ NeedleIsBits)
       => /\ err = "none"
          /\ res = FirstOccurrence
          /\ find(x, op.sub, op.start, op.end).reads \subseteq 0..(x.len - 1)
    /\ (op.name = "index" /\ op.start >= 0 /\ NeedleIsBits)
       => IF FirstOccurrence = -1
          THEN err = "ValueError"
          ELSE err = "none" /\ res = FirstOccurrence

\* C12's case: the needle does not occur at the start of the window but
\* further on, and the scan ends at the first occurrence
C12_Witness ==
    /\ op.name = "find"
    /\ err = "none"
    /\ NeedleIsBits
    /\ Len(NeedleBits) = 3
    /\ op.start = 3
    /\ res > 3
    /\ res + 3 < x.len

\* the number of bits of a non-negative integer: the least k with v < 2 ^ k
BitLength(v) == CHOOSE k \in 0..30 : v < 2 ^ k /\ (k = 0 \/ v >= 2 ^ (k - 1))

\* C13: from_int(v, n) with a length n gives a sequence of length n whose
\* to_int() is v mod 2 ^ n; from_int(v) without a length gives length
\* bit_length(v) (0 for v = 0) with to_int() = v, and raises the
\* negative-input error for v < 0.
C13_FromInt ==
    op.name = "from_int"
    => IF op.length # None
       THEN op.length[1] >= 0
            => /\ err = "none"
               /\ WellFormed(res)
               /\ res.len = op.length[1]
               /\ to_int(res) = op.value % (2 ^ op.length[1])
       ELSE IF op.value < 0 THEN err = "ValueError" /\ res = Empty
       ELSE /\ err = "none"
            /\ WellFormed(res)
            /\ res.len = BitLength(op.value)
            /\ to_int(res) = op.value

\* C13's case: a value wider than the given length, which is not a multiple
\* of 8, wraps
C13_Witness ==
    /\ op.name = "from_int"
    /\ err = "none"
    /\ op.length # None
    /\ op.length[1] % 8 = 3
    /\ op.value >= 2 ^ op.length[1]
    /\ to_int(res) # 0
    /\ to_int(res) # op.value

\* C14: to_str lists the bits most significant first (character k is bit
\* len - 1 - k), from_str takes the text in reverse so that the last
\* character becomes bit 0, and parsing the text of x gives a sequence equal
\* to x, of the same length, leading zero bits and the empty sequence
\* included.
C14_TextRoundTrip ==
    /\ op.name = "to_str"
       => /\ err = "none"
          /\ Len(res) = x.len
          /\ \A k \in 1..x.len :
                res[k] = IF BitsOf(x)[x.len - k + 1] = 1 THEN "1" ELSE "0"
          /\ from_str(res) = Ok(x)
    /\ (op.name = "from_str" /\ BitLike(PyStr(op.value)))
       => /\ err = "none"
          /\ WellFormed(res)
          /\ HasBits(res, BitsOfValue(PyStr(op.value)))

\* C14's case: the text of an 11-bit sequence with a leading zero bit that does
\* not read the same in both directions
C14_Witness ==
    /\ op.name = "to_str"
    /\ err = "none"
    /\ x.len = 11
    /\ res[1] = "0"
    /\ res[11] = "1"
    /\ res # Reverse(res)

\* the bit length of the call of from_bytes: the one given, or 8 * len(b)
GivenLength == IF op.length = None THEN 8 * Len(op.value) ELSE op.length[1]

\* ceil(n / 8) for n >= 0
CeilDiv8(n) == CHOOSE k \in 0..n : 8 * k >= n /\ 8 * k < n + 8

\* some bit of the last byte of b at a position >= n mod 8 is set
PaddingSet(b, n) ==
    \E k \in (n % 8)..7 : (b[Len(b)] \div (2 ^ k)) % 2 = 1

\* C15: from_bytes(b, n) validates and does not mask: it raises when
\* len(b) # ceil(n / 8), it raises when n is not a multiple of 8 and a bit of
\* the last byte at a position >= n mod 8 is set, and otherwise it returns a
\* sequence of length n whose to_bytes() is b unchanged (so for n = 8 * len(b)).
C15_FromBytes ==
    (op.name = "from_bytes" /\ GivenLength >= 0)
    => IF Len(op.value) # CeilDiv8(GivenLength)
       THEN err = "ValueError" /\ res = Empty
       ELSE IF GivenLength % 8 # 0 /\ PaddingSet(op.value, GivenLength)
       THEN err = "ValueError" /\ res = Empty
       ELSE /\ err = "none"
            /\ WellFormed(res)
            /\ res.len = GivenLength
            /\ to_bytes(res) = op.value

\* C15's case: a buffer of two bytes whose last byte has set bits, all of
\* them below the given length, which is not a multiple of 8
C15_Witness ==
    /\ op.name = "from_bytes"
    /\ err = "none"
    /\ Len(op.value) = 2
    /\ op.length # None
    /\ GivenLength % 8 # 0
    /\ op.value[2] # 0
    /\ res.bytes = op.value

(***************************************************************************)
(* Spec: a caller holds one bitarray x and mutates it, at most MaxOps      *)
(* times; op is the call, pre the bitarray before the call, err what the   *)
(* call raised.                                                            *)
(***************************************************************************)
\* the bitarrays the caller starts from: all ones and a pattern of each length
Bitarrays ==
    {from_iter([i \in 1..n |-> 1]).val : n \in 0..MaxLen}
    \cup {from_iter([i \in 1..n |-> PatBit(0, i)]).val : n \in 0..MaxLen}

KeyArgs == {None} \cup {Some(i) : i \in {-1, 0, 2, 8, 10}}

IndexArgs == {-1, 0, 3, 8, 16}

\* the values assigned to a slice or appended
ValueArgs ==
    {PyStr(<<>>), PyStr(<<"1">>), PyStr(<<"2">>),
     PyStr(<<"1", "0", "1", "0", "0", "1", "0", "1">>),
     PyBits(from_iter(<<1, 1, 1, 1>>).val),
     PyInt(5), PyList(<<1, 0>>)}

Init ==
    /\ x \in Bitarrays
    /\ pre = x
    /\ op = Idle
    /\ err = "none"
    /\ res = Empty
    /\ nops = 0

Ready == op = Idle /\ nops < MaxOps

\* the call c leaves the bitarray r.self and raises r.exc
Mutates(c, r) ==
    /\ op' = c
    /\ err' = r.exc
    /\ x' = r.self
    /\ pre' = x
    /\ nops' = nops + 1
    /\ UNCHANGED res

\* x[key] = value
DoSetItem ==
    /\ Ready
    /\ \E key \in IndexArgs, value \in {0, 1, 2} :
        Mutates([name |-> "setitem", key |-> key, value |-> value],
                setitem_int(x, key, value))

\* x[start:stop:step] = value
DoSetSlice ==
    /\ Ready
    /\ \E start \in KeyArgs, stop \in KeyArgs, step \in {None, Some(2), Some(-1)},
          value \in ValueArgs :
        Mutates([name |-> "setslice", start |-> start, stop |-> stop,
                 step |-> step, value |-> value],
                setitem_slice(x, start, stop, step, value))

\* del x[key]
DoDelIndex ==
    /\ Ready
    /\ \E key \in IndexArgs :
        Mutates([name |-> "del", key |-> key], del_stmt(x, key))

\* del x[start:stop:step]
DoDelSlice ==
    /\ Ready
    /\ \E start \in KeyArgs, stop \in KeyArgs, step \in {None, Some(2), Some(-1)} :
        Mutates([name |-> "delslice", start |-> start, stop |-> stop, step |-> step],
                del_stmt(x, <<start, stop, step>>))

\* x.__delitem__(key, None)
DoDelitemIndex ==
    /\ Ready
    /\ \E key \in IndexArgs :
        Mutates([name |-> "delitem", key |-> key], delitem_int(x, key))

\* x.__delitem__(slice(start, stop, step), None)
DoDelitemSlice ==
    /\ Ready
    /\ \E start \in KeyArgs, stop \in KeyArgs, step \in {None, Some(2), Some(-1)} :
        Mutates([name |-> "delitemslice", start |-> start, stop |-> stop,
                 step |-> step],
                delitem_slice(x, start, stop, step))

\* x.insert(index, value)
DoInsert ==
    /\ Ready
    /\ \E index \in IndexArgs \cup {x.len}, value \in {0, 1, 2} :
        Mutates([name |-> "insert", index |-> index, value |-> value],
                insert(x, index, value))

\* x.extend(values)
DoExtend ==
    /\ Ready
    /\ \E values \in ValueArgs \cup {PyList(<<1, 2>>)} :
        Mutates([name |-> "extend", values |-> values], extend(x, values))

\* x *= other
DoImul ==
    /\ Ready
    /\ \E other \in CountArgs :
        Mutates([name |-> "imul", other |-> other], imul(x, other))

\* x &= other, x |= other, x ^= other
DoIbitop ==
    /\ Ready
    /\ \E o \in {"and", "or", "xor"},
          other \in {PyInt(-1), PyInt(5), PyStr(<<"1", "1", "1", "1">>), PyFloat}
                    \cup {PyBits(b) : b \in {c \in Bitarrays : c.len = x.len}} :
        Mutates([name |-> "ibitop", o |-> o, other |-> other], ibitop(x, other, o))

\* x.setall(value)
DoSetall ==
    /\ Ready
    /\ \E value \in {0, 1, 2} :
        Mutates([name |-> "setall", value |-> value], setall(x, value))

\* x.clear()
DoClear ==
    /\ Ready
    /\ Mutates([name |-> "clear"], clear(x))

Next ==
    \/ DoSetItem
    \/ DoSetSlice
    \/ DoDelIndex
    \/ DoDelSlice
    \/ DoDelitemIndex
    \/ DoDelitemSlice
    \/ DoInsert
    \/ DoExtend
    \/ DoImul
    \/ DoIbitop
    \/ DoSetall
    \/ DoClear
    \/ Done

Spec == Init /\ [][Next]_vars

(***************************************************************************)
(* The claims about the mutating operations.                               *)
(***************************************************************************)
\* a and b have the same length and the same logical bits
SameBits(a, b) ==
    /\ a.len = b.len
    /\ Len(a.bytes) >= (a.len + 7) \div 8
    /\ Len(b.bytes) >= (b.len + 7) \div 8
    /\ \A i \in 1..a.len : BitsOf(a)[i] = BitsOf(b)[i]

\* C1: after any sequence of mutations of a validly constructed bitarray,
\* length is the count of logical bits, the storage holds exactly
\* ceil(length / 8) bytes and the unused high bits of the last byte are zero.
C1_MutationsKeepInvariant == WellFormed(x)

\* C3: a mutation that raises leaves the length and every logical bit of the
\* bitarray as they were before the call.
C3_FailedMutationChangesNothing ==
    (op # Idle /\ nops > 0 /\ err # "none") => (x = pre \/ SameBits(x, pre))

\* the slice of the mutating call, clipped against the length before the call
MutRange ==
    LET ind == slice_indices(op.start, op.stop, op.step, pre.len).val
    IN [start |-> ind[1], stop |-> ind[2], step |-> ind[3],
        count |-> range_len(ind[1], ind[2], ind[3])]

\* C6: after x[start:stop] = v with 0 <= start <= stop <= n the bitarray is
\* old x[0:start], then v, then old x[stop:n], on every path of the
\* assignment, extend() included, also when n is not byte-aligned.
C6_SliceAssignment ==
    /\ (op.name = "setslice" /\ WellFormed(pre)
        /\ op.value.kind \in {"str", "bits"} /\ BitLike(op.value)
        /\ MutRange.step = 1 /\ MutRange.start <= MutRange.stop)
       => (err = "none"
           /\ HasBits(x, SubSeq(BitsOf(pre), 1, MutRange.start)
                         \o BitsOfValue(op.value)
                         \o SubSeq(BitsOf(pre), MutRange.stop + 1, pre.len)))
    /\ (op.name = "extend" /\ WellFormed(pre) /\ BitLike(op.values))
       => (err = "none" /\ HasBits(x, BitsOf(pre) \o BitsOfValue(op.values)))

\* C7: x.insert(i, v) with 0 <= i <= n and v a bit completes and leaves
\* length n + 1, bit i equal to v, the bits before i unchanged and the bits
\* from i on moved up by one.
C7_Insert ==
    (op.name = "insert" /\ WellFormed(pre) /\ op.value \in {0, 1}
     /\ 0 <= op.index /\ op.index <= pre.len)
    => (err = "none"
        /\ HasBits(x, SubSeq(BitsOf(pre), 1, op.index)
                      \o <<op.value>>
                      \o SubSeq(BitsOf(pre), op.index + 1, pre.len)))

\* the positions a deletion selects
Deleted ==
    IF op.name \in {"del", "delitem"}
    THEN {IF op.key < 0 THEN op.key + pre.len ELSE op.key}
    ELSE {MutRange.start + k * MutRange.step : k \in 0..(MutRange.count - 1)}

\* the list l without the (0-based) positions in S
Without(l, S) ==
    LET F[i \in 0..Len(l)] ==
            IF i = 0 THEN <<>>
            ELSE IF (i - 1) \in S THEN F[i - 1] ELSE Append(F[i - 1], l[i])
    IN F[Len(l)]

\* C8: deleting by an in-range index or by a slice removes exactly the
\* selected positions and returns nothing; the remaining bits keep their
\* order and values.
C8_Deletion ==
    (/\ op.name \in {"del", "delitem", "delslice", "delitemslice"}
     /\ WellFormed(pre)
     /\ op.name \in {"del", "delitem"} => Deleted \subseteq 0..(pre.len - 1)
     /\ op.name \in {"delslice", "delitemslice"} => op.step # Some(0))
    => (err = "none" /\ HasBits(x, Without(BitsOf(pre), Deleted)))

\* op.other consecutive copies of the bits of pre
Copies ==
    [i \in 1..(pre.len * op.other) |-> BitsOf(pre)[((i - 1) % pre.len) + 1]]

\* C16: x *= n raises for every n < 0, whatever the length of x; for every
\* n >= 0 it completes and leaves x equal to n consecutive copies of the
\* original x, the value of the non-mutating x * n, on the storage-multiply
\* path and on the repeated self-append path.
C16_InPlaceRepetition ==
    (op.name = "imul" /\ WellFormed(pre))
    => IF op.other < 0
       THEN err # "none"
       ELSE /\ err = "none"
            /\ WellFormed(x)
            /\ HasBits(x, Copies)
            /\ mul(pre, PyInt(op.other)) = Ok(x)

(***************************************************************************)
(* SpecHeap: object identity.  Here x is the heap the caller holds: objs,  *)
(* the sequence objects (class, _len and the identity of the buffer that   *)
(* _bytes refers to), and bufs, the buffers (bytes or bytearray, and their *)
(* content).  pre is the heap before the call, res the index of the object *)
(* the call returned (0 for none), nops the number of calls made.          *)
(***************************************************************************)
MaxObjs == 3
MaxCalls == 2

\* cls._bytestype
bytestype(cls) == IF cls = "bits" THEN "bytes" ELSE "bytearray"

\* the value of an expression that builds a buffer: its type and content
Built(kind, data) == [alias |-> 0, kind |-> kind, data |-> data]

\* the value of an expression that denotes the existing buffer b
Alias(h, b) == [alias |-> b, kind |-> h.bufs[b].kind, data |-> h.bufs[b].data]

\* the sequence object o of the heap h as the pair (_len, _bytes)
HVal(h, o) == Obj(h.objs[o].len, h.bufs[h.objs[o].buf].data)

HBits(h, o) == PyBits(HVal(h, o))

\* an argument that is the object o of the heap, and the value it stands for
PyRef(o) == [kind |-> "ref", ref |-> o]

Deref(h, v) == IF v.kind = "ref" THEN HBits(h, v.ref) ELSE v

\* the buffers of h an object of type bytes with the content data may be: the
\* interpreter is free to hand out an existing immutable object for an equal
\* new one (0 stands for a new buffer)
Homes(h, store) ==
    IF store.alias # 0 THEN {store.alias}
    ELSE IF store.kind = "bytearray" THEN {0}
    ELSE {0} \cup {b \in 1..Len(h.bufs) :
                      h.bufs[b].kind = "bytes" /\ h.bufs[b].data = store.data}

\* res = object.__new__(cls); res._bytes = store; res._len = length, with the
\* buffer at home (0: a new one)
Alloc(h, cls, length, store, home) ==
    [exc |-> "none",
     ret |-> Len(h.objs) + 1,
     heap |-> [objs |-> Append(h.objs,
                               [cls |-> cls, len |-> length,
                                buf |-> IF home = 0 THEN Len(h.bufs) + 1 ELSE home]),
               bufs |-> IF home = 0
                        THEN Append(h.bufs, [kind |-> store.kind, data |-> store.data])
                        ELSE h.bufs]]

\* the call raises e and leaves the heap as it is
HRaise(h, e) == [exc |-> e, ret |-> 0, heap |-> h]

\* cls(value) with res._bytes = value._bytes
heap_new_aliased(h, cls, src) == Alias(h, h.objs[src].buf)

\* cls(value), value the object src: res._bytes = cls._bytestype(value._bytes)
heap_new_store(h, cls, src) == Built(bytestype(cls), h.bufs[h.objs[src].buf].data)

\* self[start:stop:step]: the buffer of the result
heap_getitem_store(h, self, start, stop, step) ==
    LET o == h.objs[self]
        r == getitem_slice(HVal(h, self), start, stop, step)
        ind == slice_indices(start, stop, step, o.len).val
        fast == \/ ind[3] = -1 /\ ind[1] % 8 = 7 /\ ind[2] % 8 = 7
                \/ ind[3] = 1 /\ ind[1] % 8 = 0 /\ (ind[2] % 8 = 0 \/ ind[2] = o.len)
    IN Built(IF range_len(ind[1], ind[2], ind[3]) # 0 /\ fast
             THEN h.bufs[o.buf].kind               \* a slice of self._bytes
             ELSE bytestype(o.cls),
             r.val.bytes)

\* self + other, other the object o2: the buffer of the result
heap_add_store(h, self, o2) ==
    LET o == h.objs[self]
    IN Built(IF o.len % 8 = 0 THEN h.bufs[o.buf].kind   \* self._bytes + ...
             ELSE bytestype(o.cls),
             add(HVal(h, self), HBits(h, o2)).val.bytes)

\* other + self, other a text: the buffer of the result
heap_radd_store(h, self, other) ==
    LET o == h.objs[self]
        r == radd(HVal(h, self), PyStr(other))
    IN Built(IF from_str(other).val.len % 8 = 0 THEN "bytes"   \* bytes + ...
             ELSE bytestype(o.cls),
             r.val.bytes)

\* self * n: the buffer of the result
heap_mul_store(h, self, n) ==
    LET o == h.objs[self]
    IN Built(IF o.len % 8 = 0 THEN h.bufs[o.buf].kind ELSE bytestype(o.cls),
             mul(HVal(h, self), PyInt(n)).val.bytes)

\* self.reversed(): the buffer of the result
heap_reversed_store(h, self) ==
    LET o == h.objs[self]
    IN Built(IF o.len % 8 = 0 THEN h.bufs[o.buf].kind ELSE bytestype(o.cls),
             reversed(HVal(h, self)).val.bytes)

\* self ^ other, other the object o2: the buffer of the result
heap_bitop_store(h, self, o2) ==
    Built(bytestype(h.objs[self].cls),
          bitop(HVal(h, self), HBits(h, o2), "xor").val.bytes)

\* a mutation of the bitarray t in place: _len and the content of its buffer
\* become those of r.self
HMutate(h, t, r) ==
    [exc |-> r.exc,
     ret |-> 0,
     heap |-> [objs |-> [h.objs EXCEPT ![t].len = r.self.len],
               bufs |-> [h.bufs EXCEPT ![h.objs[t].buf].data = r.self.bytes]]]

\* self._bytes = store; self._len = length, with the buffer at home (0: new)
HRebind(h, t, length, store, home) ==
    [exc |-> "none",
     ret |-> 0,
     heap |-> [objs |-> [h.objs EXCEPT ![t].len = length,
                                       ![t].buf = IF home = 0 THEN Len(h.bufs) + 1
                                                  ELSE home],
               bufs |-> IF home = 0
                        THEN Append(h.bufs, [kind |-> store.kind, data |-> store.data])
                        ELSE h.bufs]]

(***************************************************************************)
(* The mutations of a bitarray whose _bytes is of type bytes (the result   *)
(* of text + bitarray): an assignment to an item or a slice of _bytes, and *)
(* a deletion, raise TypeError; nothing is changed.  Each operator gives   *)
(* the exception of the call.                                              *)
(***************************************************************************)
frozen_setitem_int(self, key, value) ==
    LET r == setitem_int(self, key, value)
    IN IF r.exc # "none" THEN r.exc ELSE "TypeError"

\* for di, bit in zip(rng, value): self[di] = bit
frozen_assign(self, rng, v) ==
    LET items == iter_bits(v)
    IN IF Min(Len(rng), Len(items)) = 0 THEN "none"
       ELSE frozen_setitem_int(self, rng[1], items[1])

RECURSIVE frozen_setitem_slice(_, _, _, _, _)

\* self += values, values a text or a sequence
frozen_extend(self, values) ==
    frozen_setitem_slice(self, Some(self.len), None, None, values)

frozen_paths(self, a, b, st, v) ==
    IF st # 1
    THEN IF v.len < 0 \/ range_len(a, b, st) # v.len THEN "ValueError"
         ELSE frozen_assign(self, range_seq(a, b, st), v)
    ELSE IF a % 8 = 0 /\ b % 8 = 0 /\ v.len % 8 = 0 THEN "TypeError"
    ELSE IF a % 8 = 0 /\ b = self.len THEN "TypeError"
    ELSE IF b - a = v.len THEN frozen_assign(self, range_seq(a, b, st), v)
    ELSE IF b = self.len
         THEN IF v.len # 0 THEN "TypeError"       \* _resize
              ELSE frozen_assign(self, range_seq(a, b, st), v)
    ELSE Let(getitem_slice(self, Some(b), None, None), LAMBDA tail :
         IF tail.exc # "none" THEN tail.exc
         ELSE IF a < self.len THEN "TypeError"    \* _resize: del self._bytes[blen:]
         ELSE Let(frozen_extend(self, PyBits(v)), LAMBDA e :
              IF e # "none" THEN e ELSE frozen_extend(self, PyBits(tail.val))))

frozen_setitem_slice(self, start, stop, step, value) ==
    Let(slice_indices(start, stop, step, self.len), LAMBDA ind :
    IF ind.exc # "none" THEN ind.exc
    ELSE Let(slice_value(value, range_len(ind.val[1], ind.val[2], ind.val[3])),
             LAMBDA v :
             IF v.exc # "none" THEN v.exc
             ELSE frozen_paths(self, ind.val[1], ind.val[2], ind.val[3], v.val)))

frozen_ibitop(self, other) ==
    Let(bitop_operand(self, other), LAMBDA v :
    IF v.exc # "none" THEN v.exc
    ELSE IF v.val.len < 0 \/ self.len < 0 \/ v.val.len # self.len THEN "ValueError"
    ELSE IF Len(v.val.bytes) = 0 THEN "none"
    ELSE IF Len(self.bytes) = 0 THEN "IndexError"
    ELSE "TypeError")

\* the part of __imul__ that appends
frozen_imul(self, other) ==
    IF other < 0 THEN "ValueError"
    ELSE IF other # 1
         THEN Let(getitem_slice(self, None, None, None), LAMBDA val :
              IF val.exc # "none" THEN val.exc
              ELSE frozen_extend(self, PyBits(val.val)))
    ELSE "none"

(***************************************************************************)
(* The calls on the heap h.  Each gives the set of its outcomes: exc, the  *)
(* object returned and the heap it leaves.                                 *)
(***************************************************************************)
\* the outcomes of a call that returns a new object of class cls
Allocs(h, cls, r, store) ==
    IF r.exc # "none" THEN {HRaise(h, r.exc)}
    ELSE {Alloc(h, cls, r.val.len, store, home) : home \in Homes(h, store)}

IsFrozen(h, t) == h.bufs[h.objs[t].buf].kind = "bytes"

heap_new(h, cls, src) ==
    IF cls = "bits" /\ h.objs[src].cls = "bits"
    THEN {[exc |-> "none", ret |-> src, heap |-> h]}        \* return value
    ELSE Allocs(h, cls, Ok(HVal(h, src)), heap_new_store(h, cls, src))

heap_getitem(h, self, start, stop, step) ==
    Allocs(h, h.objs[self].cls, getitem_slice(HVal(h, self), start, stop, step),
           heap_getitem_store(h, self, start, stop, step))

heap_add(h, self, o2) ==
    Allocs(h, h.objs[self].cls, add(HVal(h, self), HBits(h, o2)),
           heap_add_store(h, self, o2))

heap_radd(h, self, other) ==
    Allocs(h, h.objs[self].cls, radd(HVal(h, self), PyStr(other)),
           heap_radd_store(h, self, other))

heap_mul(h, self, n) ==
    Allocs(h, h.objs[self].cls, mul(HVal(h, self), PyInt(n)),
           heap_mul_store(h, self, n))

heap_reversed(h, self) ==
    Allocs(h, h.objs[self].cls, reversed(HVal(h, self)), heap_reversed_store(h, self))

heap_bitop(h, self, o2) ==
    Allocs(h, h.objs[self].cls, bitop(HVal(h, self), HBits(h, o2), "xor"),
           heap_bitop_store(h, self, o2))

heap_setitem(h, t, key, value) ==
    IF IsFrozen(h, t) THEN {HRaise(h, frozen_setitem_int(HVal(h, t), key, value))}
    ELSE {HMutate(h, t, setitem_int(HVal(h, t), key, value))}

heap_setslice(h, t, start, stop, step, value) ==
    IF IsFrozen(h, t)
    THEN {HRaise(h, frozen_setitem_slice(HVal(h, t), start, stop, step, value))}
    ELSE {HMutate(h, t, setitem_slice(HVal(h, t), start, stop, step, value))}

heap_extend(h, t, values) ==
    IF IsFrozen(h, t) THEN {HRaise(h, frozen_extend(HVal(h, t), values))}
    ELSE {HMutate(h, t, extend(HVal(h, t), values))}

heap_imul(h, t, other) ==
    IF IsFrozen(h, t)
    THEN IF h.objs[t].len % 8 = 0 \/ other = 0
         THEN LET store == Built("bytes",        \* self._bytes *= other
                                 bytes_mul(HVal(h, t).bytes, other))
              IN {HRebind(h, t, h.objs[t].len * other, store, home) :
                     home \in Homes(h, store)}
         ELSE {HRaise(h, frozen_imul(HVal(h, t), other))}
    ELSE {HMutate(h, t, imul(HVal(h, t), other))}

heap_ibitop(h, t, other) ==
    IF IsFrozen(h, t) THEN {HRaise(h, frozen_ibitop(HVal(h, t), other))}
    ELSE {HMutate(h, t, ibitop(HVal(h, t), other, "xor"))}

\* self._bytes = bytearray(...); self._fix_padding()
heap_setall(h, t, value) ==
    IF value \notin {0, 1} THEN {HRaise(h, "ValueError")}
    ELSE LET r == setall(HVal(h, t), value)
             done == HRebind(h, t, r.self.len, Built("bytearray", r.self.bytes), 0)
         IN {[done EXCEPT !.exc = r.exc]}

heap_clear(h, t) ==
    IF IsFrozen(h, t) THEN {HRaise(h, "AttributeError")}   \* bytes has no clear
    ELSE {HMutate(h, t, clear(HVal(h, t)))}

\* the values of the objects the caller starts with
HeapLists ==
    {<<>>, <<1, 0, 1>>, [i \in 1..8 |-> PatBit(4, i)], [i \in 1..11 |-> PatBit(0, i)]}

\* the heap with one bits and one bitarray, each built by from_iter
HeapOf(l1, l2) ==
    [objs |-> <<[cls |-> "bits", len |-> Len(l1), buf |-> 1],
                [cls |-> "bitarray", len |-> Len(l2), buf |-> 2]>>,
     bufs |-> <<[kind |-> "bytes", data |-> from_iter(l1).val.bytes],
                [kind |-> "bytearray", data |-> from_iter(l2).val.bytes]>>]

InitHeap ==
    /\ x \in {HeapOf(l1, l2) : l1 \in HeapLists, l2 \in HeapLists}
    /\ pre = x
    /\ op = Idle
    /\ err = "none"
    /\ res = Empty
    /\ nops = 0

Objects == 1..Len(x.objs)

HBitarrays == {t \in Objects : x.objs[t].cls = "bitarray"}

CanCall == op = Idle /\ nops < MaxCalls

CanBuild == CanCall /\ Len(x.objs) < MaxObjs

\* the call c ends as one of the outcomes
Outcome(c, outcomes) ==
    \E r \in outcomes :
        /\ op' = c
        /\ err' = r.exc
        /\ res' = r.ret
        /\ x' = r.heap
        /\ pre' = x
        /\ nops' = nops + 1

HeapSlices ==
    {<<None, None, None>>, <<Some(0), Some(8), None>>, <<Some(1), None, None>>,
     <<None, None, Some(-1)>>}

HeapTexts == {<<>>, <<"1">>, <<"0", "1", "1", "0", "0", "0", "0", "1">>}

HDoNew ==
    /\ CanBuild
    /\ \E cls \in {"bits", "bitarray"}, src \in Objects :
        Outcome([name |-> "new", cls |-> cls, src |-> src], heap_new(x, cls, src))

HDoGetSlice ==
    /\ CanBuild
    /\ \E self \in Objects, s \in HeapSlices :
        Outcome([name |-> "getitem", self |-> self, slice |-> s],
                heap_getitem(x, self, s[1], s[2], s[3]))

HDoAdd ==
    /\ CanBuild
    /\ \E self \in Objects, other \in Objects :
        Outcome([name |-> "add", self |-> self, other |-> other],
                heap_add(x, self, other))

HDoRadd ==
    /\ CanBuild
    /\ \E self \in Objects, other \in HeapTexts :
        Outcome([name |-> "radd", self |-> self, other |-> other],
                heap_radd(x, self, other))

HDoMul ==
    /\ CanBuild
    /\ \E self \in Objects, n \in 1..MaxCount :
        Outcome([name |-> "mul", self |-> self, n |-> n], heap_mul(x, self, n))

HDoReversed ==
    /\ CanBuild
    /\ \E self \in Objects :
        Outcome([name |-> "reversed", self |-> self], heap_reversed(x, self))

HDoBitop ==
    /\ CanBuild
    /\ \E self \in Objects, other \in Objects :
        Outcome([name |-> "xor", self |-> self, other |-> other],
                heap_bitop(x, self, other))

HDoSetItem ==
    /\ CanCall
    /\ \E t \in HBitarrays, key \in {0, -1}, value \in {0, 1} :
        Outcome([name |-> "setitem", target |-> t, key |-> key, value |-> value],
                heap_setitem(x, t, key, value))

\* x[start:stop:step] = value, value another object or a text
HDoSetSlice ==
    /\ CanCall
    /\ \E t \in HBitarrays, s \in HeapSlices :
       \E value \in {PyRef(v) : v \in Objects \ {t}} \cup {PyStr(<<"1">>)} :
        Outcome([name |-> "setslice", target |-> t, slice |-> s, value |-> value],
                heap_setslice(x, t, s[1], s[2], s[3], Deref(x, value)))

HDoExtend ==
    /\ CanCall
    /\ \E t \in HBitarrays :
       \E values \in {PyRef(v) : v \in Objects \ {t}} :
        Outcome([name |-> "extend", target |-> t, values |-> values],
                heap_extend(x, t, Deref(x, values)))

HDoImul ==
    /\ CanCall
    /\ \E t \in HBitarrays, n \in 0..MaxCount :
        Outcome([name |-> "imul", target |-> t, n |-> n], heap_imul(x, t, n))

HDoIbitop ==
    /\ CanCall
    /\ \E t \in HBitarrays :
       \E other \in {PyRef(v) : v \in Objects \ {t}} \cup {PyInt(255)} :
        Outcome([name |-> "ixor", target |-> t, other |-> other],
                heap_ibitop(x, t, Deref(x, other)))

HDoSetall ==
    /\ CanCall
    /\ \E t \in HBitarrays, value \in {0, 1} :
        Outcome([name |-> "setall", target |-> t, value |-> value],
                heap_setall(x, t, value))

HDoClear ==
    /\ CanCall
    /\ \E t \in HBitarrays :
        Outcome([name |-> "clear", target |-> t], heap_clear(x, t))

NextHeap ==
    \/ HDoNew
    \/ HDoGetSlice
    \/ HDoAdd
    \/ HDoRadd
    \/ HDoMul
    \/ HDoReversed
    \/ HDoBitop
    \/ HDoSetItem
    \/ HDoSetSlice
    \/ HDoExtend
    \/ HDoImul
    \/ HDoIbitop
    \/ HDoSetall
    \/ HDoClear
    \/ Done

SpecHeap == InitHeap /\ [][NextHeap]_vars

\* the call mutates: its target is the only object it may change
Mutators == {"setitem", "setslice", "extend", "imul", "ixor", "setall", "clear"}

\* the objects that existed before the call, its target excepted
Bystanders ==
    {p \in 1..Len(pre.objs) : ~(op.name \in Mutators /\ p = op.target)}

\* two objects refer to one buffer
Shared(h, p, q) == p # q /\ h.objs[p].buf = h.objs[q].buf

\* C17: a bitarray exclusively owns its storage: no buffer that can be
\* written is referred to by two objects, so a call changes the length and
\* the bits of no object but the bitarray it mutates (not of the source of a
\* copy, of a slice, concatenation, repetition or reversal taken from it, of
\* a value assigned into it), a bits value never changes, and only bits(x)
\* for x of class bits returns an object that existed before.
C17_ExclusiveStorage ==
    op # Idle
    => /\ \A p \in Objects, q \in Objects :
            Shared(x, p, q) => x.bufs[x.objs[p].buf].kind = "bytes"
       /\ \A p \in Bystanders :
            x.objs[p].cls = pre.objs[p].cls /\ HVal(x, p) = HVal(pre, p)
       /\ \A p \in 1..Len(pre.objs) :
            pre.objs[p].cls = "bits" => HVal(x, p) = HVal(pre, p)
       /\ \A p \in Objects : x.objs[p].cls = "bits" => x.bufs[x.objs[p].buf].kind = "bytes"
       /\ (res # 0 /\ res <= Len(pre.objs))
          => (op.name = "new" /\ op.cls = "bits" /\ pre.objs[op.src].cls = "bits"
              /\ res = op.src)

\* C17's case: a bitarray that was copied from another one is changed by a
\* slice assignment, and the two now differ
C17_Witness ==
    /\ op # Idle
    /\ op.name = "setslice"
    /\ err = "none"
    /\ Len(x.objs) = 3
    /\ op.target = 3
    /\ HVal(pre, 3) = HVal(pre, 2)
    /\ HVal(x, 3) # HVal(x, 2)
    /\ HVal(x, 2).len > 0

====
